---------------------------- MODULE Spec2Model ----------------------------
(***************************************************************************)
(* Model of atom::NodeBindings (src/common/node_bindings.cc): the          *)
(* integration of the libuv loop with the host message loop.               *)
(*                                                                         *)
(* Two threads take steps: the main thread (Initialize,                    *)
(* PrepareMessageLoop, RunMessageLoop, the UvRunOnce tasks run by the host *)
(* message loop, ~NodeBindings) and the embed ("Poll") thread              *)
(* (EmbedThreadRunner).  A handler is cut into several actions only at the *)
(* points where the other thread can observe or change shared state        *)
(* (semaphore operations, the blocking poll, the read of embed_closed_,    *)
(* uv_thread_join).                                                        *)
(*                                                                         *)
(* embed_closed_ is a plain bool written once by the main thread and read  *)
(* by the embed thread without synchronisation.  The racing read returns   *)
(* the old or the new value; as the flag changes once, both outcomes are   *)
(* the interleavings in which EmbedThreadRunner_Check steps before or      *)
(* after Dtor_Begin.                                                       *)
(***************************************************************************)
EXTENDS Naturals, Sequences, FiniteSets

\* Number of times the environment makes the libuv loop ready (an fd or a
\* timer becomes due) during one run.
MaxEvents == 4

\* Longest process argument vector drawn (argv[0] included).
MaxArgc == 2

\* Longest process argument vector drawn for the runtime initializer alone.
MaxInitArgc == 3

\* Number of BindTo calls in one run.
MaxBinds == 3

VARIABLES
  is_browser_,          \* role flag, set by the constructor
  argv,                 \* CommandLine::ForCurrentProcess()->argv()
  node_argv,            \* the vector handed to node::Init (<<>> before)
  global_env,           \* "NULL" or "env"
  create_env_calls,     \* calls of node::CreateEnvironment
  g_standalone_mode,    \* "unset", TRUE or FALSE
  g_upstream_node_mode, \* "unset", TRUE or FALSE
  idle_timer_,          \* "uninit", "armed" or "stopped"
  prepared,             \* PrepareMessageLoop has run (dummy handle registered)
  message_loop_,        \* "NULL" or "loop"
  sem_state,            \* "uninit", "live" or "destroyed"
  embed_sem_,           \* count of the semaphore
  embed_closed_,        \* the Closed flag
  dummy_pending,        \* uv_async_send(&dummy_uv_handle_) not yet consumed by uv_run
  io_ready,             \* the loop's backend has something ready
  events_left,          \* readiness events the environment may still produce
  tasks,                \* UvRunOnce tasks pending in the host message loop
  quit_requested,       \* QuitWhenIdle was called on the host loop
  loop_exited,          \* the host loop's Run() has returned
  main_pc,              \* position of the main thread
  embed_pc,             \* position of the embed thread
  joined,               \* uv_thread_join has returned
  r,                    \* last value returned by uv_run
  stop_flag,            \* uv_loop_->stop_flag after the last uv_run
  pumps,                \* UvRunOnce invocations so far
  quits,                \* QuitWhenIdle calls so far
  first_report,         \* iteration at which uv_run first reported 0 / stop (0: none)
  last_call,            \* last of UvRunOnce ("pump") / PollEvents ("poll") called
  pump_threads,         \* threads that have executed UvRunOnce
  poll_threads,         \* threads that have executed PollEvents
  pc_at_close,          \* embed_pc when the destructor set embed_closed_
  security_token,       \* security token of each script context
  bootstrap_runs,       \* runs of the compiled bootstrap script (cefode.js)
  bootstrap_call,       \* arguments of the last bootstrap function call (<<>>: none)
  bind_calls,           \* BindTo calls so far
  last_bind_ctx         \* mainWorldScriptContext() of the last BindTo ("none" before)

vars == << is_browser_, argv, node_argv, global_env, create_env_calls,
           g_standalone_mode, g_upstream_node_mode, idle_timer_, prepared,
           message_loop_, sem_state, embed_sem_, embed_closed_, dummy_pending,
           io_ready, events_left, tasks, quit_requested, loop_exited,
           main_pc, embed_pc, joined, r, stop_flag, pumps, quits,
           first_report, last_call, pump_threads, poll_threads, pc_at_close,
           security_token, bootstrap_runs, bootstrap_call, bind_calls,
           last_bind_ctx >>

initVars == << is_browser_, argv, node_argv, global_env, create_env_calls,
               g_standalone_mode, g_upstream_node_mode >>
loopVars == << io_ready, events_left, r, stop_flag >>
hostVars == << tasks, quit_requested, loop_exited >>
obsVars  == << pumps, quits, first_report, last_call, pump_threads,
               poll_threads, pc_at_close >>
bindVars == << security_token, bootstrap_runs, bootstrap_call, bind_calls,
               last_bind_ctx >>

-----------------------------------------------------------------------------
\* Process argument vectors: the executable followed by up to MaxArgc - 1
\* arguments.
ArgWords == {"--flag", "file"}

Argvs == { <<"app">> \o t : t \in UNION { [1..n -> ArgWords] : n \in 0..(MaxArgc - 1) } }

\* Initialize, lines 95-109: the entry script under the resources directory,
\* named after the role.
ScriptPath(browser) ==
  IF browser THEN "resources/browser/atom/atom.js"
             ELSE "resources/browser/atom/atom-renderer.js"

\* The splice putting the script path after the original arguments.
SpliceArgs_Append(av, script) == av \o << script >>

\* Initialize, lines 84-92 and 110: args.insert(args.begin() + 1, script).
SpliceArgs(av, script) == <<av[1]>> \o <<script>> \o Tail(av)

\* The process is dead: a null dereference or a failed DCHECK ended it.
Crashed == main_pc = "crashed"

\* Script contexts of the frames the host creates, each with a token of its
\* own, and the token of global_env's context.
Contexts == {"c1", "c2"}

EnvToken == "env_token"

\* Paths of document URLs, as sequences of pieces; a piece is plain text or
\* a %-escape.
UrlPaths == { <<"/tmp/hello", "%20", "world.html">>, <<"/a", "%23", "b">>,
              <<"/index.html">> }

\* The state after construction, the argument vector left to the caller.
InitState ==
  /\ is_browser_ \in BOOLEAN
  /\ node_argv = << >>
  /\ global_env = "NULL"
  /\ create_env_calls = 0
  /\ g_standalone_mode = "unset"
  /\ g_upstream_node_mode = "unset"
  /\ idle_timer_ = "uninit"
  /\ prepared = FALSE
  /\ message_loop_ = "NULL"
  /\ sem_state = "uninit"
  /\ embed_sem_ = 0
  /\ embed_closed_ = FALSE
  /\ dummy_pending = FALSE
  /\ io_ready = FALSE
  /\ events_left = MaxEvents
  /\ tasks = 0
  /\ quit_requested = FALSE
  /\ loop_exited = FALSE
  /\ main_pc = "idle"
  /\ embed_pc = "none"
  /\ joined = FALSE
  /\ r = 1
  /\ stop_flag = 0
  /\ pumps = 0
  /\ quits = 0
  /\ first_report = 0
  /\ last_call = "none"
  /\ pump_threads = {}
  /\ poll_threads = {}
  /\ pc_at_close = "none"
  /\ security_token = [c \in Contexts |-> c]
  /\ bootstrap_runs = 0
  /\ bootstrap_call = << >>
  /\ bind_calls = 0
  /\ last_bind_ctx = "none"

Init == argv \in Argvs /\ InitState

\* Argument vectors of up to MaxInitArgc entries, for the runtime initializer
\* and the context binder taken alone.
InitArgvs ==
  { <<"app">> \o t : t \in UNION { [1..n -> ArgWords] : n \in 0..(MaxInitArgc - 1) } }

BindInit == argv \in InitArgvs /\ InitState

-----------------------------------------------------------------------------
\* Initialize opening the error reporting system in both roles.
Initialize_StandaloneAlways ==
  /\ main_pc = "idle"
  /\ ~prepared
  /\ create_env_calls = 0
  /\ node_argv' = SpliceArgs(argv, ScriptPath(is_browser_))
  /\ idle_timer_' = IF is_browser_ THEN "armed" ELSE idle_timer_
  /\ g_standalone_mode' = TRUE
  /\ g_upstream_node_mode' = FALSE
  /\ global_env' = "env"
  /\ create_env_calls' = create_env_calls + 1
  /\ UNCHANGED << is_browser_, argv, prepared, message_loop_, sem_state,
                  embed_sem_, embed_closed_, dummy_pending, main_pc, embed_pc,
                  joined >>
  /\ UNCHANGED << loopVars, hostVars, obsVars >>
  /\ UNCHANGED bindVars

\* NodeBindings::Initialize.
Initialize ==
  /\ main_pc = "idle"
  /\ ~prepared
  /\ create_env_calls = 0
  /\ node_argv' = SpliceArgs(argv, ScriptPath(is_browser_))
  /\ idle_timer_' = IF is_browser_ THEN "armed" ELSE idle_timer_
  /\ g_standalone_mode' = is_browser_
  /\ g_upstream_node_mode' = FALSE
  /\ global_env' = "env"
  /\ create_env_calls' = create_env_calls + 1
  /\ UNCHANGED << is_browser_, argv, prepared, message_loop_, sem_state,
                  embed_sem_, embed_closed_, dummy_pending, main_pc, embed_pc,
                  joined >>
  /\ UNCHANGED << loopVars, hostVars, obsVars >>
  /\ UNCHANGED bindVars

-----------------------------------------------------------------------------
\* The Context Binder.

\* BindTo, lines 152-154: net::UnescapeURLComponent with SPACES and
\* URL_SPECIAL_CHARS turns each %-escape of the path into its character.
UnescapePiece(t) ==
  CASE t = "%20" -> " "
    [] t = "%23" -> "#"
    [] OTHER -> t

UnescapeURLComponent(path) == [i \in 1..Len(path) |-> UnescapePiece(path[i])]

\* BindTo without the test for an empty context.
BindTo_NoEmptyCheck ==
  /\ main_pc = "idle"
  /\ bind_calls < MaxBinds
  /\ \E ctx \in Contexts \cup {"empty"}, path \in UrlPaths :
       /\ bind_calls' = bind_calls + 1
       /\ last_bind_ctx' = ctx
       /\ IF global_env = "NULL"
            THEN /\ main_pc' = "crashed"
                 /\ UNCHANGED << security_token, bootstrap_runs, bootstrap_call >>
            ELSE /\ security_token' =
                      [c \in Contexts |->
                         IF c = ctx THEN EnvToken ELSE security_token[c]]
                 /\ bootstrap_runs' = bootstrap_runs + 1
                 /\ bootstrap_call' =
                      << ctx, "process_object", UnescapeURLComponent(path) >>
                 /\ UNCHANGED main_pc
  /\ UNCHANGED << initVars, idle_timer_, prepared, message_loop_, sem_state,
                  embed_sem_, embed_closed_, dummy_pending, embed_pc, joined >>
  /\ UNCHANGED << loopVars, hostVars, obsVars >>

\* BindTo creating an environment of its own for the frame.
BindTo_NewEnvironment ==
  /\ main_pc = "idle"
  /\ bind_calls < MaxBinds
  /\ \E ctx \in Contexts \cup {"empty"}, path \in UrlPaths :
       /\ bind_calls' = bind_calls + 1
       /\ last_bind_ctx' = ctx
       /\ IF ctx = "empty"
            THEN UNCHANGED << security_token, bootstrap_runs, bootstrap_call,
                              global_env, create_env_calls >>
            ELSE /\ global_env' = "env"
                 /\ create_env_calls' = create_env_calls + 1
                 /\ security_token' = [security_token EXCEPT ![ctx] = EnvToken]
                 /\ bootstrap_runs' = bootstrap_runs + 1
                 /\ bootstrap_call' =
                      << ctx, "process_object", UnescapeURLComponent(path) >>
  /\ UNCHANGED << is_browser_, argv, node_argv, g_standalone_mode,
                  g_upstream_node_mode, idle_timer_, prepared, message_loop_,
                  sem_state, embed_sem_, embed_closed_, dummy_pending, main_pc,
                  embed_pc, joined >>
  /\ UNCHANGED << loopVars, hostVars, obsVars >>

\* NodeBindings::BindTo: a frame whose main-world context is ctx and whose
\* document URL has the given path.  With a context, global_env is
\* dereferenced: NULL (Initialize never ran) is a null dereference.
BindTo ==
  /\ main_pc = "idle"
  /\ bind_calls < MaxBinds
  /\ \E ctx \in Contexts \cup {"empty"}, path \in UrlPaths :
       /\ bind_calls' = bind_calls + 1
       /\ last_bind_ctx' = ctx
       /\ IF ctx = "empty"
            THEN UNCHANGED << security_token, bootstrap_runs, bootstrap_call,
                              main_pc >>
            ELSE IF global_env = "NULL"
              THEN /\ main_pc' = "crashed"
                   /\ UNCHANGED << security_token, bootstrap_runs,
                                   bootstrap_call >>
              ELSE /\ security_token' =
                        [security_token EXCEPT ![ctx] = EnvToken]
                   /\ bootstrap_runs' = bootstrap_runs + 1
                   /\ bootstrap_call' =
                        << ctx, "process_object", UnescapeURLComponent(path) >>
                   /\ UNCHANGED main_pc
  /\ UNCHANGED << initVars, idle_timer_, prepared, message_loop_, sem_state,
                  embed_sem_, embed_closed_, dummy_pending, embed_pc, joined >>
  /\ UNCHANGED << loopVars, hostVars, obsVars >>

-----------------------------------------------------------------------------
\* PrepareMessageLoop creating the semaphore with one post already in it.
PrepareMessageLoop_SemInitOne ==
  /\ main_pc = "idle"
  /\ ~prepared
  /\ prepared' = TRUE
  /\ sem_state' = "live"
  /\ embed_sem_' = 1
  /\ embed_pc' = "check"
  /\ UNCHANGED << initVars, idle_timer_, message_loop_, embed_closed_,
                  dummy_pending, main_pc, joined >>
  /\ UNCHANGED << loopVars, hostVars, obsVars >>
  /\ UNCHANGED bindVars

\* NodeBindings::PrepareMessageLoop: register the dummy handle, create the
\* semaphore with count 0, start the embed thread.
PrepareMessageLoop ==
  /\ main_pc = "idle"
  /\ ~prepared
  /\ prepared' = TRUE
  /\ sem_state' = "live"
  /\ embed_sem_' = 0
  /\ embed_pc' = "check"
  /\ UNCHANGED << initVars, idle_timer_, message_loop_, embed_closed_,
                  dummy_pending, main_pc, joined >>
  /\ UNCHANGED << loopVars, hostVars, obsVars >>
  /\ UNCHANGED bindVars

-----------------------------------------------------------------------------
\* The Loop Pump.

\* The quit condition without the stop_flag test.
QuitCondition_OnlyR(rr, sf) == rr = 0

\* The quit condition with && in place of ||.
QuitCondition_And(rr, sf) == rr = 0 /\ sf # 0

\* UvRunOnce, line 193: the condition under which the host loop is asked to
\* quit.
QuitCondition(rr, sf) == rr = 0 \/ sf # 0

\* UvRunOnce posting the semaphore before uv_run instead of after it.
UvRunOnce_Enter_PostFirst ==
  IF global_env = "NULL"
    THEN /\ main_pc' = "crashed"
         /\ UNCHANGED << embed_sem_, pumps, last_call, pump_threads >>
    ELSE /\ main_pc' = "uv_run"
         /\ pumps' = pumps + 1
         /\ last_call' = "pump"
         /\ pump_threads' = pump_threads \cup {"main"}
         /\ embed_sem_' = embed_sem_ + 1

\* UvRunOnce, lines 185-192: entering the iteration.  global_env->context()
\* on a NULL global_env (Initialize never ran) is a null dereference.
UvRunOnce_Enter ==
  IF global_env = "NULL"
    THEN /\ main_pc' = "crashed"
         /\ UNCHANGED << embed_sem_, pumps, last_call, pump_threads >>
    ELSE /\ main_pc' = "uv_run"
         /\ pumps' = pumps + 1
         /\ last_call' = "pump"
         /\ pump_threads' = pump_threads \cup {"main"}
         /\ UNCHANGED embed_sem_

\* NodeBindings::RunMessageLoop: remember the main thread's loop and run
\* UvRunOnce directly.
RunMessageLoop ==
  /\ main_pc = "idle"
  /\ prepared
  /\ message_loop_ = "NULL"
  /\ message_loop_' = "loop"
  /\ UvRunOnce_Enter
  /\ UNCHANGED << initVars, idle_timer_, prepared, sem_state, embed_closed_,
                  dummy_pending, embed_pc, joined, quits, first_report,
                  poll_threads, pc_at_close >>
  /\ UNCHANGED << loopVars, hostVars >>
  /\ UNCHANGED bindVars

\* The host message loop runs a posted UvRunOnce task (lines 202-203) on
\* the main thread, while its Run() has not returned.
HostLoopRunTask ==
  /\ main_pc = "idle"
  /\ message_loop_ = "loop"
  /\ ~loop_exited
  /\ tasks > 0
  /\ tasks' = tasks - 1
  /\ UvRunOnce_Enter
  /\ UNCHANGED << initVars, idle_timer_, prepared, message_loop_, sem_state,
                  embed_closed_, dummy_pending, embed_pc, joined, quits,
                  first_report, poll_threads, pc_at_close, quit_requested,
                  loop_exited >>
  /\ UNCHANGED loopVars
  /\ UNCHANGED bindVars

\* UvRunOnce, lines 192-194: uv_run(UV_RUN_ONCE | UV_RUN_NOWAIT) returns rr
\* with stop_flag sf, having dispatched what was ready (the dummy async
\* included), and QuitWhenIdle is called if the loop is done.
UvRunOnce_Run ==
  /\ main_pc = "uv_run"
  /\ \E rr \in {0, 1}, sf \in {0, 1} :
       /\ r' = rr
       /\ stop_flag' = sf
       /\ first_report' = IF first_report = 0 /\ (rr = 0 \/ sf # 0)
                            THEN pumps ELSE first_report
       /\ IF QuitCondition(rr, sf)
            THEN quits' = quits + 1 /\ quit_requested' = TRUE
            ELSE UNCHANGED << quits, quit_requested >>
  /\ io_ready' = FALSE
  /\ dummy_pending' = FALSE
  /\ main_pc' = "uv_post"
  /\ UNCHANGED << initVars, idle_timer_, prepared, message_loop_, sem_state,
                  embed_sem_, embed_closed_, events_left, tasks, loop_exited,
                  embed_pc, joined, pumps, last_call, pump_threads,
                  poll_threads, pc_at_close >>
  /\ UNCHANGED bindVars

\* UvRunOnce returning without the uv_sem_post.
UvRunOnce_Post_NoSemPost ==
  /\ main_pc = "uv_post"
  /\ embed_sem_' = embed_sem_
  /\ main_pc' = IF embed_closed_ THEN "d_drain" ELSE "idle"
  /\ UNCHANGED << initVars, idle_timer_, prepared, message_loop_, sem_state,
                  embed_closed_, dummy_pending, embed_pc, joined >>
  /\ UNCHANGED << loopVars, hostVars, obsVars >>
  /\ UNCHANGED bindVars

\* UvRunOnce, line 197: uv_sem_post(&embed_sem_), then return to the caller:
\* the host loop or RunMessageLoop, or RunUntilIdle inside the destructor.
UvRunOnce_Post ==
  /\ main_pc = "uv_post"
  /\ embed_sem_' = embed_sem_ + 1
  /\ main_pc' = IF embed_closed_ THEN "d_drain" ELSE "idle"
  /\ UNCHANGED << initVars, idle_timer_, prepared, message_loop_, sem_state,
                  embed_closed_, dummy_pending, embed_pc, joined >>
  /\ UNCHANGED << loopVars, hostVars, obsVars >>
  /\ UNCHANGED bindVars

\* The host loop, asked to quit when idle (line 194), leaves Run() once it
\* has no pending task.
HostLoopExit ==
  /\ main_pc = "idle"
  /\ message_loop_ = "loop"
  /\ quit_requested
  /\ ~loop_exited
  /\ tasks = 0
  /\ loop_exited' = TRUE
  /\ UNCHANGED << initVars, idle_timer_, prepared, message_loop_, sem_state,
                  embed_sem_, embed_closed_, dummy_pending, main_pc, embed_pc,
                  joined, tasks, quit_requested >>
  /\ UNCHANGED << loopVars, obsVars >>
  /\ UNCHANGED bindVars

\* The environment: something registered on the loop becomes ready.
IoEvent ==
  /\ prepared
  /\ main_pc \notin {"done", "crashed"}
  /\ events_left > 0
  /\ ~io_ready
  /\ io_ready' = TRUE
  /\ events_left' = events_left - 1
  /\ UNCHANGED << initVars, idle_timer_, prepared, message_loop_, sem_state,
                  embed_sem_, embed_closed_, dummy_pending, main_pc, embed_pc,
                  joined, r, stop_flag >>
  /\ UNCHANGED << hostVars, obsVars >>
  /\ UNCHANGED bindVars

-----------------------------------------------------------------------------
\* The embed thread: NodeBindings::EmbedThreadRunner.

\* Line 214: while (!self->embed_closed_).
EmbedThreadRunner_Check ==
  /\ ~Crashed
  /\ embed_pc = "check"
  /\ embed_pc' = IF embed_closed_ THEN "done" ELSE "wait"
  /\ UNCHANGED << initVars, idle_timer_, prepared, message_loop_, sem_state,
                  embed_sem_, embed_closed_, dummy_pending, main_pc, joined >>
  /\ UNCHANGED << loopVars, hostVars, obsVars >>
  /\ UNCHANGED bindVars

\* Lines 216-218: uv_sem_wait returns and PollEvents is entered.
EmbedThreadRunner_Wait ==
  /\ ~Crashed
  /\ embed_pc = "wait"
  /\ embed_sem_ > 0
  /\ embed_sem_' = embed_sem_ - 1
  /\ embed_pc' = "poll"
  /\ last_call' = "poll"
  /\ poll_threads' = poll_threads \cup {"embed"}
  /\ UNCHANGED << initVars, idle_timer_, prepared, message_loop_, sem_state,
                  embed_closed_, dummy_pending, main_pc, joined, pumps, quits,
                  first_report, pump_threads, pc_at_close >>
  /\ UNCHANGED << loopVars, hostVars >>
  /\ UNCHANGED bindVars

\* PollEvents (platform file): the blocking wait returns when something
\* registered on the loop is ready or an async handle was poked.
PollEvents ==
  /\ ~Crashed
  /\ embed_pc = "poll"
  /\ io_ready \/ dummy_pending
  /\ embed_pc' = "wake"
  /\ UNCHANGED << initVars, idle_timer_, prepared, message_loop_, sem_state,
                  embed_sem_, embed_closed_, dummy_pending, main_pc, joined >>
  /\ UNCHANGED << loopVars, hostVars, obsVars >>
  /\ UNCHANGED bindVars

\* WakeupMainThread returning without posting the UvRunOnce task.
WakeupMainThread_NoPost ==
  /\ ~Crashed
  /\ embed_pc = "wake"
  /\ embed_pc' = "check"
  /\ main_pc' = IF message_loop_ = "NULL" THEN "crashed" ELSE main_pc
  /\ UNCHANGED << initVars, idle_timer_, prepared, message_loop_, sem_state,
                  embed_sem_, embed_closed_, dummy_pending, joined >>
  /\ UNCHANGED << loopVars, hostVars, obsVars >>
  /\ UNCHANGED bindVars

\* WakeupMainThread calling UvRunOnce itself, on the embed thread, instead
\* of posting it to the main thread's loop.
WakeupMainThread_Inline ==
  /\ ~Crashed
  /\ embed_pc = "wake"
  /\ embed_pc' = "check"
  /\ pumps' = pumps + 1
  /\ last_call' = "pump"
  /\ pump_threads' = pump_threads \cup {"embed"}
  /\ io_ready' = FALSE
  /\ dummy_pending' = FALSE
  /\ embed_sem_' = embed_sem_ + 1
  /\ UNCHANGED << initVars, idle_timer_, prepared, message_loop_, sem_state,
                  embed_closed_, main_pc, joined, events_left, r, stop_flag,
                  quits, first_report, poll_threads, pc_at_close >>
  /\ UNCHANGED hostVars
  /\ UNCHANGED bindVars

\* NodeBindings::WakeupMainThread, called at line 221: DCHECK(message_loop_)
\* and PostTask of UvRunOnce.  With message_loop_ NULL the DCHECK fails (or
\* PostTask dereferences NULL) and the process dies.
WakeupMainThread ==
  /\ ~Crashed
  /\ embed_pc = "wake"
  /\ embed_pc' = "check"
  /\ IF message_loop_ = "NULL"
       THEN main_pc' = "crashed" /\ UNCHANGED tasks
       ELSE tasks' = tasks + 1 /\ UNCHANGED main_pc
  /\ UNCHANGED << initVars, idle_timer_, prepared, message_loop_, sem_state,
                  embed_sem_, embed_closed_, dummy_pending, joined,
                  quit_requested, loop_exited >>
  /\ UNCHANGED << loopVars, obsVars >>
  /\ UNCHANGED bindVars

-----------------------------------------------------------------------------
\* NodeBindings::~NodeBindings.

\* Line 62: embed_closed_ = true.
Dtor_Begin ==
  /\ main_pc = "idle"
  /\ prepared
  /\ ~embed_closed_
  /\ embed_closed_' = TRUE
  /\ pc_at_close' = embed_pc
  /\ main_pc' = "d_post"
  /\ UNCHANGED << initVars, idle_timer_, prepared, message_loop_, sem_state,
                  embed_sem_, dummy_pending, embed_pc, joined, pumps, quits,
                  first_report, last_call, pump_threads, poll_threads >>
  /\ UNCHANGED << loopVars, hostVars >>
  /\ UNCHANGED bindVars

\* Line 63: uv_sem_post(&embed_sem_).
Dtor_SemPost ==
  /\ main_pc = "d_post"
  /\ embed_sem_' = embed_sem_ + 1
  /\ main_pc' = "d_async"
  /\ UNCHANGED << initVars, idle_timer_, prepared, message_loop_, sem_state,
                  embed_closed_, dummy_pending, embed_pc, joined >>
  /\ UNCHANGED << loopVars, hostVars, obsVars >>
  /\ UNCHANGED bindVars

\* Line 64 (WakeupEmbedThread, line 207): uv_async_send(&dummy_uv_handle_).
WakeupEmbedThread ==
  /\ main_pc = "d_async"
  /\ dummy_pending' = TRUE
  /\ main_pc' = "d_join"
  /\ UNCHANGED << initVars, idle_timer_, prepared, message_loop_, sem_state,
                  embed_sem_, embed_closed_, embed_pc, joined >>
  /\ UNCHANGED << loopVars, hostVars, obsVars >>
  /\ UNCHANGED bindVars

\* The destructor going on without waiting for the poll thread to return.
Dtor_Join_NoWait ==
  /\ main_pc = "d_join"
  /\ joined' = TRUE
  /\ main_pc' = "d_drain"
  /\ UNCHANGED << initVars, idle_timer_, prepared, message_loop_, sem_state,
                  embed_sem_, embed_closed_, dummy_pending, embed_pc >>
  /\ UNCHANGED << loopVars, hostVars, obsVars >>
  /\ UNCHANGED bindVars

\* Line 67: uv_thread_join returns once EmbedThreadRunner has returned.
Dtor_Join ==
  /\ main_pc = "d_join"
  /\ embed_pc = "done"
  /\ joined' = TRUE
  /\ main_pc' = "d_drain"
  /\ UNCHANGED << initVars, idle_timer_, prepared, message_loop_, sem_state,
                  embed_sem_, embed_closed_, dummy_pending, embed_pc >>
  /\ UNCHANGED << loopVars, hostVars, obsVars >>
  /\ UNCHANGED bindVars

\* The destructor going on to uv_sem_destroy without draining the host loop.
Dtor_RunUntilIdle_NoDrain ==
  /\ main_pc = "d_drain"
  /\ main_pc' = IF message_loop_ = "NULL" THEN "crashed" ELSE "d_destroy"
  /\ UNCHANGED << initVars, idle_timer_, prepared, message_loop_, sem_state,
                  embed_sem_, embed_closed_, dummy_pending, embed_pc, joined >>
  /\ UNCHANGED << loopVars, hostVars, obsVars >>
  /\ UNCHANGED bindVars

\* Line 68: message_loop_->RunUntilIdle() runs the pending tasks one after
\* the other and returns when none is left.  message_loop_ is NULL when
\* RunMessageLoop never ran.
Dtor_RunUntilIdle ==
  /\ main_pc = "d_drain"
  /\ IF message_loop_ = "NULL"
       THEN /\ main_pc' = "crashed"
            /\ UNCHANGED << tasks, embed_sem_, pumps, last_call, pump_threads >>
       ELSE IF tasks > 0
         THEN /\ tasks' = tasks - 1
              /\ UvRunOnce_Enter
         ELSE /\ main_pc' = "d_destroy"
              /\ UNCHANGED << tasks, embed_sem_, pumps, last_call, pump_threads >>
  /\ UNCHANGED << initVars, idle_timer_, prepared, message_loop_, sem_state,
                  embed_closed_, dummy_pending, embed_pc, joined, quits,
                  first_report, poll_threads, pc_at_close, quit_requested,
                  loop_exited >>
  /\ UNCHANGED loopVars
  /\ UNCHANGED bindVars

\* Line 71: uv_sem_destroy(&embed_sem_).
Dtor_SemDestroy ==
  /\ main_pc = "d_destroy"
  /\ sem_state' = "destroyed"
  /\ main_pc' = "d_timer"
  /\ UNCHANGED << initVars, idle_timer_, prepared, message_loop_, embed_sem_,
                  embed_closed_, dummy_pending, embed_pc, joined >>
  /\ UNCHANGED << loopVars, hostVars, obsVars >>
  /\ UNCHANGED bindVars

\* Line 72: uv_timer_stop(&idle_timer_).  On a timer that uv_timer_init
\* never initialised the call reads indeterminate handle fields: it finds
\* the handle inactive and does nothing, or acts on garbage and the process
\* dies.
Dtor_TimerStop ==
  /\ main_pc = "d_timer"
  /\ IF idle_timer_ = "uninit"
       THEN /\ main_pc' \in {"done", "crashed"}
            /\ UNCHANGED idle_timer_
       ELSE /\ idle_timer_' = "stopped"
            /\ main_pc' = "done"
  /\ UNCHANGED << initVars, prepared, message_loop_, sem_state, embed_sem_,
                  embed_closed_, dummy_pending, embed_pc, joined >>
  /\ UNCHANGED << loopVars, hostVars, obsVars >>
  /\ UNCHANGED bindVars

-----------------------------------------------------------------------------
EmbedStep ==
  \/ EmbedThreadRunner_Check
  \/ EmbedThreadRunner_Wait
  \/ PollEvents
  \/ WakeupMainThread

\* The destructor once it has started, with the UvRunOnce steps it runs
\* from RunUntilIdle.
DtorRun ==
  \/ Dtor_SemPost
  \/ WakeupEmbedThread
  \/ Dtor_Join
  \/ Dtor_RunUntilIdle
  \/ Dtor_SemDestroy
  \/ Dtor_TimerStop
  \/ (embed_closed_ /\ (UvRunOnce_Run \/ UvRunOnce_Post))

Next ==
  \/ Initialize
  \/ PrepareMessageLoop
  \/ RunMessageLoop
  \/ HostLoopRunTask
  \/ UvRunOnce_Run
  \/ UvRunOnce_Post
  \/ HostLoopExit
  \/ IoEvent
  \/ EmbedThreadRunner_Check
  \/ EmbedThreadRunner_Wait
  \/ PollEvents
  \/ WakeupMainThread
  \/ Dtor_Begin
  \/ Dtor_SemPost
  \/ WakeupEmbedThread
  \/ Dtor_Join
  \/ Dtor_RunUntilIdle
  \/ Dtor_SemDestroy
  \/ Dtor_TimerStop

Spec == Init /\ [][Next]_vars

\* The runtime initializer and the context binder taken alone.  BindTo
\* writes only the frame's context and the bootstrap's record and reads only
\* global_env, which no step of the loop integration writes: it commutes
\* with every step of Next, and is explored here with a wider choice of
\* argument vectors.
BindNext ==
  \/ Initialize
  \/ BindTo

BindSpec == BindInit /\ [][BindNext]_vars

\* Both threads are scheduled: the embed thread takes its next step when it
\* can, and a destructor that has started runs on.  The start of the
\* destructor, the host loop and the environment are under no obligation.
FairSpec == Spec /\ WF_vars(EmbedStep) /\ WF_vars(DtorRun)

\* The host message loop, while it runs, runs its pending tasks to the end.
HostLoopStep ==
  \/ HostLoopRunTask
  \/ (~embed_closed_ /\ (UvRunOnce_Run \/ UvRunOnce_Post))

\* FairSpec with a host message loop that is scheduled too.
FairLoopSpec == FairSpec /\ WF_vars(HostLoopStep)

TypeOK ==
  /\ is_browser_ \in BOOLEAN
  /\ global_env \in {"NULL", "env"}
  /\ idle_timer_ \in {"uninit", "armed", "stopped"}
  /\ message_loop_ \in {"NULL", "loop"}
  /\ sem_state \in {"uninit", "live", "destroyed"}
  /\ embed_sem_ \in Nat
  /\ tasks \in Nat
  /\ main_pc \in {"idle", "uv_run", "uv_post", "d_post", "d_async", "d_join",
                  "d_drain", "d_destroy", "d_timer", "done", "crashed"}
  /\ embed_pc \in {"none", "check", "wait", "poll", "wake", "done"}
  /\ pumps \in Nat /\ quits \in Nat /\ first_report \in Nat

-----------------------------------------------------------------------------
\* RunMessageLoop has run: the handshake is under way.
Started == message_loop_ = "loop"

\* A step in which UvRunOnce is invoked.
PumpCalled == pumps' = pumps + 1

\* A step in which PollEvents is invoked.
PollCalled == embed_pc # "poll" /\ embed_pc' = "poll"

\* A step in which WakeupMainThread posts a UvRunOnce task.
TaskPosted == tasks' = tasks + 1

\* C1: UvRunOnce and PollEvents calls strictly alternate: a UvRunOnce call
\* never follows a UvRunOnce call without a PollEvents call in between, and
\* a PollEvents call never follows a PollEvents call without a UvRunOnce
\* call in between.
C1_Alternation ==
  [][ /\ (PumpCalled => last_call # "pump")
      /\ (PollCalled => last_call # "poll") ]_vars

\* C2: while the main thread is inside uv_run the embed thread is not inside
\* PollEvents, and it holds no semaphore post that would let it enter (a
\* count above 0 is left only to a thread that has already returned).
C2_NoPollDuringUvRun ==
  main_pc = "uv_run" =>
    /\ embed_pc # "poll"
    /\ (embed_sem_ > 0 => embed_pc = "done")

C2_Witness ==
  /\ main_pc = "uv_run"
  /\ embed_pc = "wait"
  /\ pumps >= 2
  /\ ~embed_closed_

\* C3: UvRunOnce is executed by the main thread only and PollEvents by the
\* embed thread only.
C3_ThreadAffinity ==
  /\ pump_threads \subseteq {"main"}
  /\ poll_threads \subseteq {"embed"}

C3_Witness ==
  /\ pump_threads = {"main"}
  /\ poll_threads = {"embed"}
  /\ pumps >= 2
  /\ main_pc = "uv_run"

\* C4 (as stated): between its creation and its destruction the semaphore
\* never counts more than 1.
C4_AtMostOnePost == sem_state = "live" => embed_sem_ <= 1

\* C4 (amended): the count is at most 1 as long as the destructor has not
\* started, and at most 2 afterwards.
C4_AtMostOnePostUntilClosed ==
  sem_state = "live" =>
    /\ (~embed_closed_ => embed_sem_ <= 1)
    /\ embed_sem_ <= 2

\* The destructor has posted right after a pump had: two posts outstanding.
C4_Witness ==
  /\ main_pc = "d_async"
  /\ embed_sem_ = 2
  /\ pc_at_close = "check"

\* C5: no UvRunOnce task is posted (WakeupMainThread) in a state where
\* embed_closed_ is true.
C5_NoWakeupWhenClosed == [][ TaskPosted => ~embed_closed_ ]_vars

\* C6: when the destructor started while the embed thread was inside
\* PollEvents, the thread posts no UvRunOnce task after that poll.
C6_TeardownDuringPoll == [][ pc_at_close = "poll" => ~TaskPosted ]_vars

\* C7: when the destructor has returned, the embed thread has been joined,
\* the semaphore is destroyed, the idle timer is not armed (stopped if it
\* ever was armed) and no UvRunOnce task is left in the host loop.
C7_CleanTeardown ==
  main_pc = "done" =>
    /\ joined
    /\ embed_pc = "done"
    /\ sem_state = "destroyed"
    /\ idle_timer_ # "armed"
    /\ (is_browser_ => idle_timer_ = "stopped")
    /\ tasks = 0

\* The destructor returned after starting with a pump task in flight and
\* the embed thread waiting on the semaphore.
C7_Witness ==
  /\ main_pc = "done"
  /\ pc_at_close = "wait"
  /\ pumps >= 3

\* C8: once the destructor of a started NodeBindings has set the Closed
\* flag, the destructor eventually completes.
C8_TeardownTerminates == (Started /\ embed_closed_) ~> (main_pc = "done")

\* The part of C8 about the embed thread: it leaves its loop and
\* uv_thread_join returns.
TeardownJoins == (Started /\ embed_closed_) ~> joined

\* C9: an iteration of UvRunOnce calls QuitWhenIdle exactly once if uv_run
\* returned 0 or stop_flag is set and not at all otherwise; nothing else
\* calls it.
C9_QuitPropagation ==
  [][ IF main_pc = "uv_run" /\ main_pc' = "uv_post"
        THEN quits' = quits + (IF r' = 0 \/ stop_flag' # 0 THEN 1 ELSE 0)
        ELSE quits' = quits ]_vars

C9_Witness ==
  /\ main_pc = "uv_post"
  /\ r = 1
  /\ stop_flag = 1
  /\ quits = 1
  /\ pumps = 3

\* C10 (as stated): after the iteration that first reported the loop done,
\* no further UvRunOnce is scheduled or run and QuitWhenIdle was called once.
C10_PumpStops ==
  first_report > 0 =>
    /\ pumps = first_report
    /\ quits = 1
    /\ tasks = 0

\* C10 (amended): QuitWhenIdle is not called before the loop first reports
\* done; when it first does, on iteration N, exactly N UvRunOnce invocations
\* have occurred and that iteration makes the first QuitWhenIdle call.
C10_FirstQuitOnNth ==
  /\ [](first_report = 0 => quits = 0)
  /\ [](first_report > 0 => quits >= 1 /\ pumps >= first_report)
  /\ [][ first_report = 0 /\ first_report' # 0 =>
           /\ first_report' = pumps
           /\ quits' = 1 ]_vars

\* The spec's case: the loop first reports done on the fifth iteration.
C10_Witness ==
  /\ first_report = 5
  /\ pumps = 5
  /\ quits = 1
  /\ main_pc = "uv_post"

\* An I/O event is ready while the embed thread is inside PollEvents and the
\* destructor has not started.
EventDuringPoll ==
  /\ Started
  /\ embed_pc = "poll"
  /\ io_ready
  /\ ~embed_closed_

\* The main thread is inside the UvRunOnce that dispatches the ready event.
EventPumped ==
  /\ main_pc = "uv_run"
  /\ io_ready

\* C11 (as stated): an event that becomes ready while the embed thread is
\* inside PollEvents leads to one posted task and its UvRunOnce on the main
\* thread.
C11_WakeupDelivery == EventDuringPoll ~> EventPumped

\* C11 (amended): the same, as long as the host loop has not been asked to
\* quit; and outside teardown never more than one UvRunOnce task is pending,
\* so the event is answered by one WakeupMainThread and one UvRunOnce.
C11_WakeupDeliveryWhileRunning ==
  /\ (EventDuringPoll /\ ~quit_requested) ~> EventPumped
  /\ [](~embed_closed_ => tasks <= 1)

\* The posted task waits in the queue of a running host loop.
C11_Witness ==
  /\ Started
  /\ ~embed_closed_
  /\ ~quit_requested
  /\ tasks = 1
  /\ io_ready
  /\ embed_pc = "wait"

-----------------------------------------------------------------------------
\* Initialize has returned.
Initialized == create_env_calls >= 1

\* A step that is a BindTo call.
BindCalled == bind_calls' = bind_calls + 1

\* C12: node::CreateEnvironment is invoked exactly once: after Initialize,
\* and after any number of BindTo calls, the count of CreateEnvironment calls
\* is 1 and global_env is the environment it returned; no BindTo call
\* creates an environment or assigns global_env.
C12_SingleEnvironment ==
  /\ [](create_env_calls <= 1)
  /\ [](Initialized <=> global_env = "env")
  /\ [][BindCalled => UNCHANGED << global_env, create_env_calls >>]_vars

C12_Witness ==
  /\ create_env_calls = 1
  /\ bootstrap_runs >= 2
  /\ bind_calls = MaxBinds

\* C13: the vector Initialize hands to node::Init is one longer than argv,
\* starts with argv[0], has the entry-script path of the role at index 1,
\* and continues with argv[1], argv[2], ... in their order.
C13_ArgumentSplicing ==
  Initialized =>
    /\ Len(node_argv) = Len(argv) + 1
    /\ node_argv[1] = argv[1]
    /\ node_argv[2] = ScriptPath(is_browser_)
    /\ \A i \in 2..Len(argv) : node_argv[i + 1] = argv[i]

C13_Witness ==
  /\ Initialized
  /\ Len(argv) = MaxInitArgc
  /\ argv[2] # argv[3]
  /\ Len(node_argv) = MaxInitArgc + 1

\* C14 as stated: after Initialize g_standalone_mode is true and
\* g_upstream_node_mode is false in both roles.
C14_StandaloneBothRoles ==
  Initialized => (g_standalone_mode = TRUE /\ g_upstream_node_mode = FALSE)

\* C14: after Initialize g_upstream_node_mode is false in both roles and
\* g_standalone_mode equals is_browser_: true for the privileged instance,
\* false for a renderer.
C14_StandaloneIsBrowser ==
  Initialized =>
    (g_standalone_mode = is_browser_ /\ g_upstream_node_mode = FALSE)

C14_Witness ==
  /\ Initialized
  /\ ~is_browser_
  /\ g_standalone_mode = FALSE
  /\ g_upstream_node_mode = FALSE

\* C15: a BindTo call on a frame whose context is empty changes no security
\* token, runs no bootstrap, invokes no bootstrap function and leaves all
\* other state as it was (whether or not Initialize has run).
C15_EmptyContextNoOp ==
  [][ (BindCalled /\ last_bind_ctx' = "empty") =>
        /\ UNCHANGED << security_token, bootstrap_runs, bootstrap_call >>
        /\ UNCHANGED << initVars, loopVars, hostVars, obsVars >>
        /\ UNCHANGED << idle_timer_, prepared, message_loop_, sem_state,
                        embed_sem_, embed_closed_, dummy_pending, main_pc,
                        embed_pc, joined >> ]_vars

C15_Witness ==
  /\ last_bind_ctx = "empty"
  /\ bind_calls >= 2
  /\ bootstrap_runs >= 1
  /\ main_pc = "idle"

\* C16: no PollEvents call occurs before the first UvRunOnce, the one made
\* by RunMessageLoop, has finished its uv_run: the poll thread is inside
\* PollEvents only after a pump has been made, and not while that first
\* pump is still inside uv_run.
C16_StartupOrdering ==
  embed_pc = "poll" =>
    /\ pumps >= 1
    /\ ~(pumps = 1 /\ main_pc = "uv_run")

\* The start-up order holds as long as the destructor has not started.
StartupOrderingUntilClosed == ~embed_closed_ => C16_StartupOrdering

\* The number of places the baton of the handshake is at: a post in the
\* semaphore, the poll thread between uv_sem_wait and the end of PostTask,
\* a queued UvRunOnce task, UvRunOnce executing on the main thread.
Batons ==
  (IF embed_sem_ = 1 THEN 1 ELSE 0)
  + (IF embed_pc \in {"poll", "wake"} THEN 1 ELSE 0)
  + (IF tasks = 1 THEN 1 ELSE 0)
  + (IF main_pc \in {"uv_run", "uv_post"} THEN 1 ELSE 0)

\* C17: from RunMessageLoop's first pump until the destructor starts,
\* exactly one of these holds: the semaphore count is 1, the poll thread is
\* between uv_sem_wait and the end of PostTask, one UvRunOnce task is
\* queued, UvRunOnce is executing; the count and the queue never exceed 1,
\* and the poll thread never waits with no pump queued or running.
C17_SingleBaton ==
  (Started /\ ~embed_closed_ /\ ~Crashed) =>
    /\ Batons = 1
    /\ embed_sem_ <= 1
    /\ tasks <= 1
    /\ ~(embed_pc = "wait" /\ embed_sem_ = 0 /\ tasks = 0 /\ main_pc = "idle")

C17_Witness ==
  /\ Started /\ ~embed_closed_ /\ ~Crashed
  /\ pumps >= 2
  /\ embed_pc = "wait"
  /\ embed_sem_ = 1
  /\ main_pc = "idle"

\* C18: message_loop_ is non-NULL whenever the poll thread calls
\* WakeupMainThread and whenever the destructor calls
\* message_loop_->RunUntilIdle().
C18_MessageLoopCaptured ==
  /\ embed_pc = "wake" => message_loop_ # "NULL"
  /\ main_pc = "d_drain" => message_loop_ # "NULL"

\* C19: once uv_sem_destroy has run, the poll thread has returned, no
\* UvRunOnce task is left in the host loop and the main thread is past the
\* drain; from then on no step waits or posts on embed_sem_, enters
\* PollEvents, posts a task or runs UvRunOnce.
C19_NoUseAfterTeardown ==
  /\ [](sem_state = "destroyed" =>
          /\ embed_pc = "done"
          /\ joined
          /\ tasks = 0
          /\ main_pc \in {"d_timer", "done", "crashed"})
  /\ [][sem_state = "destroyed" =>
          UNCHANGED << embed_sem_, embed_pc, tasks, pumps, sem_state >>]_vars

C19_Witness ==
  /\ sem_state = "destroyed"
  /\ main_pc = "done"
  /\ pc_at_close = "poll"
  /\ pumps >= 3

\* C20: uv_timer_stop(&idle_timer_) in the destructor is reached only with
\* a timer that Initialize has initialised and started.
C20_TimerInitialised ==
  main_pc = "d_timer" => idle_timer_ = "armed"

=============================================================================
